---- MODULE Spec2Model ----
(***************************************************************************)
(* CommandSyncer (src/src/utils/SyncCommands.ts): one sync pass walks the  *)
(* command files, keeps the publishable modules and, per module, fetches   *)
(* the target registry, looks the resolved name up and creates or edits.   *)
(* Every await of a remote call is two steps: the call is issued, then it  *)
(* returns (resolved or rejected).                                         *)
(***************************************************************************)
EXTENDS Integers, Sequences, FiniteSets, TLC

\* ---------------------------------------------------------------- bounds
MaxFiles == 2
MaxPasses == 2
MaxOptions == 2

\* ------------------------------------------------------------- constants
\* CommandType of @sern/handler (bit flags) and ApplicationCommandType of
\* discord.js, as the syncer imports them.
Text == 1
Slash == 2
Both == 3
CtxUser == 4
CtxMsg == 8
ChatInput == 1
\* Low 31 bits of the 32-bit operands of the bitwise operators.
BitMask == 2147483647
\* slice(0, -3)
SliceEnd == 3
\* What the bitwise and makes of a type that is undefined.
NoType == 0

Kinds == {Text, Slash, Both, CtxUser, CtxMsg}

\* ------------------------------------------------------- optional values
\* undefined is the empty set, a present value v is {v}.
Absent == {}
Some(v) == {v}
Value(o) == CHOOSE v \in o : TRUE
\* a ?? b
Coalesce(o, d) == IF o = Absent THEN d ELSE Value(o)

\* --------------------------------------------------------------- strings
\* Names and paths are sequences of characters.
Ban == <<"b", "a", "n">>
BanUpper == <<"B", "a", "n">>
Ping == <<"p", "i", "n", "g">>
DotJs == <<".", "j", "s">>
DotMjs == <<".", "m", "j", "s">>
Dir == <<"/", "c", "/">>
SubDir == <<"m", "/">>

\* path.parse drops the slashes a path ends with.
RECURSIVE stripSlashes(_)
stripSlashes(path) ==
    IF Len(path) > 0 /\ path[Len(path)] = "/"
    THEN stripSlashes(SubSeq(path, 1, Len(path) - 1))
    ELSE path

\* What follows the last "/".
RECURSIVE lastSegment(_)
lastSegment(path) ==
    IF \E i \in 1..Len(path) : path[i] = "/"
    THEN lastSegment(Tail(path))
    ELSE path

\* s.split("?")[0]
beforeQuery(s) ==
    LET marks == {i \in 1..Len(s) : s[i] = "?"}
    IN IF marks = {} THEN s
       ELSE SubSeq(s, 1, (CHOOSE i \in marks : \A j \in marks : i <= j) - 1)

\* basename(path) of discord.js: parse(path).base.split("?")[0]
basename(path) == beforeQuery(lastSegment(stripSlashes(path)))

\* s.slice(0, -3)
slice(s) == IF Len(s) > SliceEnd THEN SubSeq(s, 1, Len(s) - SliceEnd) ELSE <<>>

\* ------------------------------------------------------------ bitwise ops
RECURSIVE BitAnd(_, _)
BitAnd(a, b) ==
    IF a = 0 \/ b = 0 THEN 0
    ELSE (a % 2) * (b % 2) + 2 * BitAnd(a \div 2, b \div 2)

RECURSIVE BitOr(_, _)
BitOr(a, b) ==
    IF a = 0 THEN b
    ELSE IF b = 0 THEN a
    ELSE (IF a % 2 = 1 \/ b % 2 = 1 THEN 1 ELSE 0) + 2 * BitOr(a \div 2, b \div 2)

BitNot(a) == BitMask - a

publishableTypes == BitOr(BitOr(BitOr(Both, CtxUser), CtxMsg), Slash)

\* The predicate without the ~CommandType.Text mask.
publishableNoMask(module) == BitAnd(publishableTypes, module.type) # 0

\* CommandSyncer.publishable
publishable(module) ==
    BitAnd(BitAnd(publishableTypes, BitNot(Text)), module.type) # 0

\* --------------------------------------------------------------- options
\* An option is a record; the fields autocomplete, command, required and
\* options (of a subcommand) are optional.
Truthy(el, f) == f \in DOMAIN el /\ el[f] = TRUE

Without(el, f) == [g \in DOMAIN el \ {f} |-> el[g]]

\* A map callback that forwards the option as it is.
transformOptionKeep(el) == el

\* el.autocomplete ? (({ command, ...el }) => el)(el) : el
transformOption(el) ==
    IF Truthy(el, "autocomplete") THEN Without(el, "command") ELSE el

\* CommandSyncer.optionsTransformer; the result is optional (undefined for
\* the context menu kinds).
optionsTransformer(module) ==
    IF module.type = Slash \/ module.type = Both
    THEN IF module.options = Absent
         THEN Some(<<>>)
         ELSE LET opts == Value(module.options)
              IN Some([i \in 1..Len(opts) |-> transformOption(opts[i])])
    ELSE Absent

\* ---------------------------------------------------------------- inputs
Guilds == {"g1", "g2"}
Global == "global"
Targets == {Global} \cup Guilds

\* The scopedGuilds argument of the constructor: omitted, or a list of ids.
Scopes == {<<>>, <<"g1">>, <<"g2", "g1">>}
Args == {Absent} \cup {Some(s) : s \in Scopes}

\* private scopedGuilds: string[] = []
Constructor(arg) == Coalesce(arg, <<>>)

AutoOption ==
    [name |-> "q", type |-> 3, autocomplete |-> TRUE, command |-> "handler"]

\* Where a module comes from: its file, its explicit name and its
\* description, if any, and the kinds it is tried with. The first resolves to
\* the name of the seeded entry, the other two resolve to one and the same
\* name.
Sources ==
    { [path |-> Dir \o Ban \o DotJs, name |-> Absent, description |-> Absent,
       kinds |-> {Text, Slash, CtxUser}],
      [path |-> Dir \o SubDir \o Ban \o DotJs, name |-> Some(Ping), description |-> Some("d"),
       kinds |-> {Both}],
      [path |-> Dir \o Ping \o DotJs, name |-> Absent, description |-> Absent,
       kinds |-> {CtxMsg}] }

OptionsOfKind(k) == IF k \in {Slash, Both} THEN Some(<<AutoOption>>) ELSE Absent

Files ==
    UNION { { [path |-> s.path,
               module |-> [type |-> k, name |-> s.name, description |-> s.description,
                           options |-> OptionsOfKind(k)]] :
              k \in s.kinds } :
            s \in Sources }

\* getFiles walks a directory tree: no path comes twice.
FileSeqs ==
    { fs \in UNION {[1..n -> Files] : n \in 0..MaxFiles} :
        \A i, j \in 1..Len(fs) : i # j => fs[i].path # fs[j].path }

\* The modules optionsTransformer is tried on. An option with a handler has
\* autocomplete: true (the option types of @sern/handler allow no other).
Handler == "handler"
OptionSet ==
    { [name |-> "a", type |-> 3],
      [name |-> "a", type |-> 3, required |-> TRUE],
      [name |-> "b", type |-> 3, autocomplete |-> TRUE, command |-> Handler],
      [name |-> "b", type |-> 4, autocomplete |-> TRUE, command |-> Handler,
       required |-> TRUE],
      [name |-> "c", type |-> 3, autocomplete |-> FALSE],
      [name |-> "s", type |-> 1,
       options |-> <<[name |-> "b", type |-> 3, autocomplete |-> TRUE,
                      command |-> Handler]>>] }

OptionLists ==
    {Absent} \cup {Some(os) : os \in UNION {[1..n -> OptionSet] : n \in 0..MaxOptions}}

OptionModules ==
    { [type |-> k, name |-> Absent, description |-> Absent, options |-> os] :
      k \in Kinds \ {Text}, os \in OptionLists }

NoModule == [type |-> 0, name |-> Absent, description |-> Absent, options |-> Absent]
NotTransformed == [done |-> FALSE, value |-> Absent]

\* A registry is the ordered collection of its entries.
\* A seeded registry holds two entries whose names differ in case only.
SeedId(t) == IF t = Global THEN 1 ELSE IF t = "g1" THEN 2 ELSE 3
SeedEntries(t) ==
    << [id |-> SeedId(t) + Cardinality(Targets), name |-> BanUpper, description |-> "old"],
       [id |-> SeedId(t), name |-> Ban, description |-> "old"] >>
FirstFreshId == 2 * Cardinality(Targets) + 1
\* Which registries hold the seeded entry when the first pass starts.
Seedings == {{}, {Global, "g1"}}

\* ----------------------------------------------------------------- state
VARIABLES
    files,              \* what getFiles yields, with what import gives
    scopedGuilds,       \* this.scopedGuilds
    registry,           \* the remote: target -> entries
    nextId,             \* the remote's next entry id
    pass,               \* which run of sync() this is
    idx,                \* position of the for-await loop of sync
    pc,                 \* next, resolve, fetch, apply, done, rejected
    resolvedName,       \* sync's resolvedName
    gidx,               \* position of the loop over scopedGuilds
    guild,              \* handleScopedGuildsCommand's guild
    commands,           \* the fetched collection
    registeredCommand,  \* the result of commands.find
    inflight,           \* indexes in calls of the calls not yet returned
    calls,              \* every remote call issued, in order
    ends,               \* how each earlier pass ended
    optModule,          \* the module optionsTransformer is applied to
    optResult,          \* what optionsTransformer returned for it
    error,              \* what sync() rejected with, "" if nothing
    chain,              \* the constructor's sync().catch(...).then(...): sync, then, end
    logs,               \* the logger's info and error lines
    applicationSet,     \* client.application is set
    clientReady         \* the ready event has been emitted

vars == <<files, scopedGuilds, registry, nextId, pass, idx, pc, resolvedName,
          gidx, guild, commands, registeredCommand, inflight, calls, ends,
          optModule, optResult, error, chain, logs, applicationSet, clientReady>>

optVars == <<optModule, optResult>>

\* The constructor's promise chain and the logger.
ctorVars == <<chain, logs>>

\* The client's side of the bootstrap.
bootVars == <<applicationSet, clientReady>>

NoPayload == [name |-> Absent, description |-> Absent, type |-> 0, options |-> Absent]

Call(op, target, id, payload) ==
    [pass |-> pass, idx |-> idx, gidx |-> gidx, op |-> op, target |-> target,
     id |-> id,
     name |-> resolvedName, payload |-> payload, status |-> "pending",
     result |-> <<>>]

\* const module = await import(path)
module == files[idx].module

\* if (this.scopedGuilds): an array, empty or not, is truthy.
scopedTruthy == TRUE

\* handleCommand: if (this.scopedGuilds.length)
scoped == Len(scopedGuilds) # 0

\* The registry the current module is being reconciled with: the guild's in
\* handleScopedGuildsCommand, the application's in handleGlobalCommand.
Target == IF scoped THEN guild ELSE Global

\* What commands.fetch() resolves to: the registry as it is now.
fetched(t) == registry[t]

\* toLowerCase, on the letters the names are made of.
Lower(name) == [i \in 1..Len(name) |-> IF name[i] = "B" THEN "b" ELSE name[i]]

\* A lookup that compares the names without regard to case.
findIgnoreCase(cmds, name) ==
    IF \E i \in 1..Len(cmds) : Lower(cmds[i].name) = Lower(name)
    THEN Some(cmds[CHOOSE i \in 1..Len(cmds) :
                     /\ Lower(cmds[i].name) = Lower(name)
                     /\ \A j \in 1..(i - 1) : Lower(cmds[j].name) # Lower(name)])
    ELSE Absent

\* A lookup that never matches.
findNothing(cmds, name) == Absent

\* commands.find((e) => e.name === resolvedName)
find(cmds, name) ==
    IF \E i \in 1..Len(cmds) : cmds[i].name = name
    THEN Some(cmds[CHOOSE i \in 1..Len(cmds) :
                     /\ cmds[i].name = name
                     /\ \A j \in 1..(i - 1) : cmds[j].name # name])
    ELSE Absent

\* module.name ?? basename(path).slice(0, -3)
resolveName(file) == Coalesce(file.module.name, slice(basename(file.path)))

\* The payload of registerGlobalCommand's create.
globalCreatePayload(m, name) ==
    [name |-> Some(name), description |-> Some(Coalesce(m.description, "..")),
     type |-> ChatInput, options |-> optionsTransformer(m)]

\* The payload of registerGuildCommand's create.
guildCreatePayload(m, name) ==
    [name |-> Some(name), description |-> Some(Coalesce(m.description, "..")),
     type |-> ChatInput, options |-> optionsTransformer(m)]

\* The payload of updateCommand's edit.
editPayload(m) ==
    [name |-> m.name, description |-> m.description,
     type |-> ChatInput, options |-> optionsTransformer(m)]

\* The remote's side of a commands.set: the entry replaces what was there.
RemoteSet(reg, id, payload) ==
    <<[id |-> id, name |-> Value(payload.name),
       description |-> Value(payload.description)]>>

\* The remote's side of commands.create: a new entry with a fresh id.
RemoteCreate(reg, id, payload) ==
    Append(reg, [id |-> id, name |-> Value(payload.name),
                 description |-> Value(payload.description)])

\* The remote's side of registeredCommand.edit: the fields the payload
\* leaves undefined keep their value.
RemoteEdit(reg, id, payload) ==
    [i \in 1..Len(reg) |->
        IF reg[i].id = id
        THEN [reg[i] EXCEPT !.name = Coalesce(payload.name, @),
                            !.description = Coalesce(payload.description, @)]
        ELSE reg[i]]

Sizes == [t \in Targets |-> Len(registry[t])]

\* this.logger.info / logger.error
Line(p, level, message) == [pass |-> p, level |-> level, message |-> message]

\* e ?? "Something went wrong with syncing"
errorMessage(e) == IF e = "undefined" THEN "Something went wrong with syncing" ELSE e

\* A call that is not awaited is followed at once by the next statement.
awaitedNot == TRUE

\* await: the function goes on when the call it made has returned.
awaited == inflight = {}

\* client.application taken to be there whenever it is read.
applicationUnchecked == TRUE

\* this.client.application!: null until the client has received READY.
applicationAvailable == applicationSet

\* ------------------------------------------------------------------ Init
Init ==
    /\ files \in FileSeqs
    /\ \E arg \in Args : scopedGuilds = Constructor(arg)
    /\ \E seeded \in Seedings :
          registry = [t \in Targets |-> IF t \in seeded THEN SeedEntries(t) ELSE <<>>]
    /\ nextId = FirstFreshId
    /\ pass = 1
    /\ idx = 1
    /\ pc = "next"
    /\ resolvedName = <<>>
    /\ gidx = 0
    /\ guild = ""
    /\ commands = <<>>
    /\ registeredCommand = Absent
    /\ inflight = {}
    /\ calls = <<>>
    /\ ends = <<>>
    /\ optModule = NoModule
    /\ optResult = NotTransformed
    /\ error = ""
    /\ chain = "sync"
    /\ logs = <<Line(1, "info", "Syncing commands")>>
    \* the syncer is constructed before client.login(), or on a client that
    \* is ready
    /\ applicationSet \in BOOLEAN
    /\ clientReady = applicationSet

\* --------------------------------------------------------------- control
\* An error nobody catches: sync() rejects.
Throw ==
    /\ pc' = "rejected"
    /\ UNCHANGED <<idx, resolvedName, gidx, guild, commands, registeredCommand>>

\* The guild loop that does not move on to the next id.
NextGuildStay ==
    /\ pc' = "resolve"
    /\ guild' = ""
    /\ commands' = <<>>
    /\ registeredCommand' = Absent
    /\ UNCHANGED <<idx, resolvedName, gidx>>

\* The guild loop goes on with the next id.
NextGuild ==
    /\ pc' = "resolve"
    /\ gidx' = gidx + 1
    /\ guild' = ""
    /\ commands' = <<>>
    /\ registeredCommand' = Absent
    /\ UNCHANGED <<idx, resolvedName>>

\* handleCommand returns; the for-await loop goes on with the next file.
NextFile ==
    /\ pc' = "next"
    /\ idx' = idx + 1
    /\ resolvedName' = <<>>
    /\ gidx' = 0
    /\ guild' = ""
    /\ commands' = <<>>
    /\ registeredCommand' = Absent

\* A return where the guild loop should go on.
AdvanceReturn == NextFile

\* After the awaited create or edit resolved: the guild loop goes on, or
\* handleGlobalCommand returns.
Advance == IF scoped THEN NextGuild ELSE NextFile

\* if (!guild) throw new Error(...)
GuildMissing == Throw

FetchRejected == Throw

\* A rejected create or edit: the await rethrows.
ApplyRejected == Throw

Returned(k, status, result) ==
    /\ calls' = [calls EXCEPT ![k].status = status, ![k].result = result]
    /\ inflight' = inflight \ {k}

Issue(c) ==
    /\ calls' = Append(calls, c)
    /\ inflight' = inflight \cup {Len(calls) + 1}

\* --------------------------------------------------------------- actions
\* sync: the next file is imported; a publishable module is handled.
LoadNext ==
    /\ pc = "next"
    /\ idx <= Len(files)
    /\ IF publishable(module)
       THEN /\ resolvedName' = resolveName(files[idx])
            /\ IF scoped
               THEN pc' = "resolve" /\ gidx' = 1
               ELSE pc' = "fetch" /\ gidx' = 0
            /\ UNCHANGED idx
       ELSE /\ idx' = idx + 1
            /\ UNCHANGED <<pc, resolvedName, gidx>>
    /\ UNCHANGED <<files, scopedGuilds, registry, nextId, pass, guild, commands,
                   registeredCommand, inflight, calls, ends>>
    /\ UNCHANGED <<optVars, ctorVars, error, bootVars>>

\* sync: getFiles is exhausted.
Finish ==
    /\ pc = "next"
    /\ idx > Len(files)
    /\ pc' = "done"
    /\ UNCHANGED <<files, scopedGuilds, registry, nextId, pass, idx, resolvedName,
                   gidx, guild, commands, registeredCommand, inflight, calls, ends>>
    /\ UNCHANGED <<optVars, ctorVars, error, bootVars>>

\* handleScopedGuildsCommand: the loop over scopedGuilds is exhausted.
LoopExit ==
    /\ pc = "resolve"
    /\ gidx > Len(scopedGuilds)
    /\ awaited
    /\ NextFile
    /\ UNCHANGED <<files, scopedGuilds, registry, nextId, pass, inflight, calls, ends>>
    /\ UNCHANGED <<optVars, ctorVars, error, bootVars>>

\* this.client.guilds.fetch(guildId)
IssueGuildFetch ==
    /\ pc = "resolve"
    /\ gidx <= Len(scopedGuilds)
    /\ awaited
    /\ Issue(Call("resolve", scopedGuilds[gidx], 0, NoPayload))
    /\ UNCHANGED <<files, scopedGuilds, registry, nextId, pass, idx, pc, resolvedName,
                   gidx, guild, commands, registeredCommand, ends>>
    /\ UNCHANGED <<optVars, ctorVars, error, bootVars>>

ReturnGuildFetch ==
    /\ pc = "resolve"
    /\ inflight # {}
    /\ \E k \in inflight, ok \in BOOLEAN :
          /\ Returned(k, IF ok THEN "ok" ELSE "failed", <<>>)
          /\ error' = IF ok THEN error ELSE "guild"
          /\ IF ok
             THEN /\ guild' = scopedGuilds[gidx]
                  /\ pc' = "fetch"
                  /\ UNCHANGED <<idx, resolvedName, gidx, commands, registeredCommand>>
             ELSE GuildMissing
    /\ UNCHANGED <<files, scopedGuilds, registry, nextId, pass, ends>>
    /\ UNCHANGED <<optVars, ctorVars, bootVars>>

\* commands.fetch() of the application or of the guild
IssueCommandsFetch ==
    /\ pc = "fetch"
    /\ awaited
    /\ applicationAvailable
    /\ Issue(Call("fetch", Target, 0, NoPayload))
    /\ UNCHANGED <<files, scopedGuilds, registry, nextId, pass, idx, pc, resolvedName,
                   gidx, guild, commands, registeredCommand, ends>>
    /\ UNCHANGED <<optVars, ctorVars, error, bootVars>>

ReturnCommandsFetch ==
    /\ pc = "fetch"
    /\ inflight # {}
    /\ \E k \in inflight, ok \in BOOLEAN :
          IF ok
          THEN /\ Returned(k, "ok", fetched(Target))
               /\ UNCHANGED error
               /\ commands' = fetched(Target)
               /\ registeredCommand' = find(fetched(Target), resolvedName)
               /\ pc' = "apply"
               /\ UNCHANGED <<idx, resolvedName, gidx, guild>>
          ELSE /\ Returned(k, "failed", <<>>)
               /\ error' = "remote"
               /\ FetchRejected
    /\ UNCHANGED <<files, scopedGuilds, registry, nextId, pass, ends>>
    /\ UNCHANGED <<optVars, ctorVars, bootVars>>

\* registerGlobalCommand / registerGuildCommand: commands.create(...)
IssueCreate ==
    /\ pc = "apply"
    /\ awaited
    /\ registeredCommand = Absent
    /\ Issue(Call("create", Target, 0,
                  IF scoped
                  THEN guildCreatePayload(module, resolvedName)
                  ELSE globalCreatePayload(module, resolvedName)))
    /\ UNCHANGED <<files, scopedGuilds, registry, nextId, pass, idx, pc, resolvedName,
                   gidx, guild, commands, registeredCommand, ends>>
    /\ UNCHANGED <<optVars, ctorVars, error, bootVars>>

\* updateCommand: registeredCommand.edit(...)
IssueEdit ==
    /\ pc = "apply"
    /\ awaited
    /\ registeredCommand # Absent
    /\ Issue(Call("edit", Target, Value(registeredCommand).id, editPayload(module)))
    /\ UNCHANGED <<files, scopedGuilds, registry, nextId, pass, idx, pc, resolvedName,
                   gidx, guild, commands, registeredCommand, ends>>
    /\ UNCHANGED <<optVars, ctorVars, error, bootVars>>

ReturnCreate ==
    /\ pc = "apply"
    /\ \E k \in inflight, ok \in BOOLEAN :
          /\ calls[k].op = "create"
          /\ Returned(k, IF ok THEN "ok" ELSE "failed", <<>>)
          /\ error' = IF ok THEN error ELSE "remote"
          /\ IF ok
             THEN /\ registry' = [registry EXCEPT
                        ![calls[k].target] = RemoteCreate(@, nextId, calls[k].payload)]
                  /\ nextId' = nextId + 1
                  /\ Advance
             ELSE /\ UNCHANGED <<registry, nextId>>
                  /\ ApplyRejected
    /\ UNCHANGED <<files, scopedGuilds, pass, ends>>
    /\ UNCHANGED <<optVars, ctorVars, bootVars>>

ReturnEdit ==
    /\ pc = "apply"
    /\ \E k \in inflight, ok \in BOOLEAN :
          /\ calls[k].op = "edit"
          /\ Returned(k, IF ok THEN "ok" ELSE "failed", <<>>)
          /\ error' = IF ok THEN error ELSE "remote"
          /\ IF ok
             THEN /\ registry' = [registry EXCEPT
                        ![calls[k].target] = RemoteEdit(@, calls[k].id, calls[k].payload)]
                  /\ Advance
             ELSE /\ UNCHANGED registry
                  /\ ApplyRejected
    /\ UNCHANGED <<files, scopedGuilds, nextId, pass, ends>>
    /\ UNCHANGED <<optVars, ctorVars, bootVars>>

\* A load that fails is fatal for the pass.
LoadRejectedSkip ==
    /\ idx' = idx + 1
    /\ UNCHANGED <<pc, resolvedName, gidx, guild, commands, registeredCommand>>

\* await import(...) rejects, or publishable reads .type of an undefined
\* default export: sync() rejects.
LoadRejected == Throw

\* sync: the file cannot be imported, the import rejecting with an Error or,
\* for a module that throws it, with undefined; or it has no default export.
LoadFails ==
    /\ pc = "next"
    /\ idx <= Len(files)
    /\ \E reason \in {"import", "default", "undefined"} : error' = reason
    /\ LoadRejected
    /\ UNCHANGED <<files, scopedGuilds, registry, nextId, pass, inflight, calls, ends>>
    /\ UNCHANGED <<optVars, ctorVars, bootVars>>

\* sync: getFiles rejects, for a directory that readdir cannot read; the
\* for-await loop throws it on.
WalkFails ==
    /\ pc = "next"
    /\ error' = "readdir"
    /\ Throw
    /\ UNCHANGED <<files, scopedGuilds, registry, nextId, pass, inflight, calls, ends>>
    /\ UNCHANGED <<optVars, ctorVars, bootVars>>

\* handleGlobalCommand / handleScopedGuildsCommand: client.application is
\* still null when its commands are asked for: a TypeError, sync() rejects.
ApplicationMissing ==
    /\ pc = "fetch"
    /\ awaited
    /\ ~applicationAvailable
    /\ error' = "application"
    /\ Throw
    /\ UNCHANGED <<files, scopedGuilds, registry, nextId, pass, inflight, calls, ends>>
    /\ UNCHANGED <<optVars, ctorVars, bootVars>>

\* The bootstrap: client.login() has connected and the READY packet has come:
\* discord.js sets client.application; the ready event comes later, when the
\* client's guilds have come in.
ReadyPacket ==
    /\ ~applicationSet
    /\ applicationSet' = TRUE
    /\ UNCHANGED <<files, scopedGuilds, registry, nextId, pass, idx, pc, resolvedName,
                   gidx, guild, commands, registeredCommand, inflight, calls, ends>>
    /\ UNCHANGED <<optVars, ctorVars, error, clientReady>>

\* The bootstrap: the ready event is emitted and the ready handler logs to
\* the logger the syncer logs to.
Ready ==
    /\ applicationSet
    /\ ~clientReady
    /\ clientReady' = TRUE
    /\ logs' = Append(logs, Line(pass, "info", "Logged in"))
    /\ UNCHANGED applicationSet
    /\ UNCHANGED <<files, scopedGuilds, registry, nextId, pass, idx, pc, resolvedName,
                   gidx, guild, commands, registeredCommand, inflight, calls, ends>>
    /\ UNCHANGED <<optVars, chain, error>>

\* constructor: .catch((e) => logger.error(...))
CatchLogsError ==
    /\ pc = "rejected"
    /\ chain = "sync"
    /\ logs' = Append(logs, Line(pass, "error", errorMessage(error)))
    /\ chain' = "then"
    /\ UNCHANGED <<files, scopedGuilds, registry, nextId, pass, idx, pc, resolvedName,
                   gidx, guild, commands, registeredCommand, inflight, calls, ends>>
    /\ UNCHANGED <<optVars, error, bootVars>>

\* constructor: .then(() => logger.info("Commands synced successfully")),
\* chained after the catch.
ThenLogsSuccess ==
    /\ \/ pc = "done" /\ chain = "sync"
       \/ chain = "then"
    /\ logs' = Append(logs, Line(pass, "info", "Commands synced successfully"))
    /\ chain' = "end"
    /\ UNCHANGED <<files, scopedGuilds, registry, nextId, pass, idx, pc, resolvedName,
                   gidx, guild, commands, registeredCommand, inflight, calls, ends>>
    /\ UNCHANGED <<optVars, error, bootVars>>

\* After a pass has ended, whichever way, a new CommandSyncer is
\* constructed: it runs sync() on the same files against the remote as the
\* earlier pass left it.
Restart ==
    /\ pc \in {"done", "rejected"}
    /\ chain = "end"
    /\ error' = ""
    /\ chain' = "sync"
    /\ logs' = Append(logs, Line(pass + 1, "info", "Syncing commands"))
    /\ UNCHANGED bootVars
    /\ pass < MaxPasses
    /\ ends' = Append(ends, [outcome |-> pc, sizes |-> Sizes])
    /\ pass' = pass + 1
    /\ idx' = 1
    /\ pc' = "next"
    /\ resolvedName' = <<>>
    /\ gidx' = 0
    /\ guild' = ""
    /\ commands' = <<>>
    /\ registeredCommand' = Absent
    /\ UNCHANGED <<files, scopedGuilds, registry, nextId, inflight, calls>>
    /\ UNCHANGED optVars

Next ==
    \/ LoadNext
    \/ Finish
    \/ LoopExit
    \/ IssueGuildFetch
    \/ ReturnGuildFetch
    \/ IssueCommandsFetch
    \/ ReturnCommandsFetch
    \/ IssueCreate
    \/ IssueEdit
    \/ ReturnCreate
    \/ ReturnEdit
    \/ LoadFails
    \/ WalkFails
    \/ ApplicationMissing
    \/ ReadyPacket
    \/ Ready
    \/ CatchLogsError
    \/ ThenLogsSuccess
    \/ Restart

Spec == Init /\ [][Next]_vars

\* ------------------------------------------ the process as index starts it
\* The syncer is constructed while the dependencies are built, before
\* client.login(), over a directory that holds what Spec leaves out: files of
\* another extension, default exports without a type or with a type that is
\* no CommandType.
ProcessKinds == {NoType, Slash, BitOr(Slash, CtxUser)}

ProcessSources ==
    { [path |-> Dir \o Ban \o DotJs, name |-> Absent, description |-> Absent],
      [path |-> Dir \o Ping \o DotMjs, name |-> Absent, description |-> Absent] }

ProcessFiles ==
    { [path |-> s.path,
       module |-> [type |-> k, name |-> s.name, description |-> s.description,
                   options |-> OptionsOfKind(k)]] :
      s \in ProcessSources, k \in ProcessKinds }

ProcessFileSeqs ==
    { fs \in UNION {[1..n -> ProcessFiles] : n \in 0..MaxFiles} :
        \A i, j \in 1..Len(fs) : i # j => fs[i].path # fs[j].path }

\* index: new CommandSyncer(logger, client, []); a deployment that scopes
\* the syncer passes its guilds there.
ProcessScopes == {<<>>, <<"g1">>}

\* The registries that hold entries when the process starts.
ProcessSeeded == {Global, "g1"}

InitProcess ==
    /\ files \in ProcessFileSeqs
    /\ scopedGuilds \in ProcessScopes
    /\ registry = [t \in Targets |-> IF t \in ProcessSeeded THEN SeedEntries(t) ELSE <<>>]
    /\ nextId = FirstFreshId
    /\ pass = 1
    /\ idx = 1
    /\ pc = "next"
    /\ resolvedName = <<>>
    /\ gidx = 0
    /\ guild = ""
    /\ commands = <<>>
    /\ registeredCommand = Absent
    /\ inflight = {}
    /\ calls = <<>>
    /\ ends = <<>>
    /\ optModule = NoModule
    /\ optResult = NotTransformed
    /\ error = ""
    /\ chain = "sync"
    /\ logs = <<Line(1, "info", "Syncing commands")>>
    /\ applicationSet = FALSE
    /\ clientReady = FALSE

SpecProcess == InitProcess /\ [][Next]_vars

\* ------------------------------------------- optionsTransformer on its own
InitOptions ==
    /\ files = <<>>
    /\ scopedGuilds = <<>>
    /\ registry = [t \in Targets |-> <<>>]
    /\ nextId = FirstFreshId
    /\ pass = 1
    /\ idx = 1
    /\ pc = "options"
    /\ resolvedName = <<>>
    /\ gidx = 0
    /\ guild = ""
    /\ commands = <<>>
    /\ registeredCommand = Absent
    /\ inflight = {}
    /\ calls = <<>>
    /\ ends = <<>>
    /\ optModule \in OptionModules
    /\ optResult = NotTransformed
    /\ error = ""
    /\ chain = "end"
    /\ logs = <<>>
    /\ applicationSet = TRUE
    /\ clientReady = TRUE

Transform ==
    /\ pc = "options"
    /\ ~optResult.done
    /\ optResult' = [done |-> TRUE, value |-> optionsTransformer(optModule)]
    /\ UNCHANGED <<files, scopedGuilds, registry, nextId, pass, idx, pc, resolvedName,
                   gidx, guild, commands, registeredCommand, inflight, calls, ends,
                   optModule, error, chain, logs, applicationSet, clientReady>>

NextOptions == Transform

SpecOptions == InitOptions /\ [][NextOptions]_vars

\* ================================================================ claims
ApplyOps == {"create", "edit"}
PublishableKinds == {Slash, Both, CtxUser, CtxMsg}
PassEnded == pc \in {"done", "rejected"}

\* The registries the configured scope names.
InScope ==
    IF Len(scopedGuilds) = 0 THEN {Global}
    ELSE {scopedGuilds[j] : j \in 1..Len(scopedGuilds)}

\* The entries of a fetched collection that carry the name.
Named(entries, name) == {i \in 1..Len(entries) : entries[i].name = name}

\* C1: after a fetch that returned, the next call of the syncer is, on the same
\* target and for the same name, an edit of the entry of that name when the
\* fetched set holds one, and a create when it holds none; and a create or an
\* edit is only ever issued right after such a fetch, so that neither comes
\* with the other.
C1_CreateOrEdit ==
    \A k \in 1..Len(calls) :
        /\ (calls[k].op = "fetch" /\ calls[k].status = "ok") =>
              LET hits == Named(calls[k].result, calls[k].name)
              IN IF k = Len(calls)
                 THEN pc = "apply" /\ inflight = {}
                 ELSE LET c == calls[k + 1]
                      IN /\ c.target = calls[k].target
                         /\ c.name = calls[k].name
                         /\ c.pass = calls[k].pass /\ c.idx = calls[k].idx
                         /\ IF hits # {}
                            THEN /\ c.op = "edit"
                                 /\ \E i \in hits : calls[k].result[i].id = c.id
                            ELSE c.op = "create"
        /\ calls[k].op \in ApplyOps =>
              /\ k > 1
              /\ calls[k - 1].op = "fetch"
              /\ calls[k - 1].status = "ok"

C1_Witness ==
    \E k, n \in 2..Len(calls) :
        /\ calls[k].op = "edit"
        /\ Named(calls[k - 1].result, calls[k].name) # {}
        /\ calls[n].op = "create"
        /\ calls[n - 1].result # <<>>
        /\ calls[n].target = calls[k].target
        /\ calls[n].pass = calls[k].pass

\* C2 as claimed: a partition that cannot be resolved stops nothing but itself:
\* once the pass has ended, every later partition has been resolved for the
\* same definition.
C2_LaterPartitionsAttempted ==
    PassEnded =>
        \A k \in 1..Len(calls) :
            (calls[k].op = "resolve" /\ calls[k].status = "failed") =>
                \A j \in (calls[k].gidx + 1)..Len(scopedGuilds) :
                    \E n \in (k + 1)..Len(calls) :
                        /\ calls[n].op = "resolve"
                        /\ calls[n].pass = calls[k].pass
                        /\ calls[n].idx = calls[k].idx
                        /\ calls[n].target = scopedGuilds[j]

\* C3 as claimed: a rejected create or edit stops nothing but its definition:
\* once the pass has ended, every publishable definition that comes later has
\* had its calls issued.
C3_LaterDefinitionsProcessed ==
    PassEnded =>
        \A k \in 1..Len(calls) :
            (calls[k].op \in ApplyOps /\ calls[k].status = "failed") =>
                \A i \in (calls[k].idx + 1)..Len(files) :
                    files[i].module.type \in PublishableKinds =>
                        \E n \in (k + 1)..Len(calls) :
                            calls[n].pass = calls[k].pass /\ calls[n].idx = i

\* The fetches of one target in one pass.
Fetches(p, t) ==
    {k \in 1..Len(calls) :
        calls[k].op = "fetch" /\ calls[k].pass = p /\ calls[k].target = t}

\* C4 as claimed: in one pass the entry set of a target is fetched once, and
\* what was created earlier in the pass is not seen by a later lookup.
C4_FetchedOncePerPass ==
    \A p \in 1..pass, t \in Targets : Cardinality(Fetches(p, t)) <= 1

\* The calls of one pass that create or edit, in the order issued.
IsApply(c) == c.op \in ApplyOps
Applies(p) == LET InPass(c) == IsApply(c) /\ c.pass = p IN SelectSeq(calls, InPass)

\* The positions in files of the publishable definitions, in order.
RECURSIVE PublishableFrom(_)
PublishableFrom(i) ==
    IF i > Len(files) THEN <<>>
    ELSE IF files[i].module.type \in PublishableKinds
         THEN <<i>> \o PublishableFrom(i + 1)
         ELSE PublishableFrom(i + 1)

\* C5: in a pass that follows a completed pass over the same files, no
\* definition is created, every definition handled is edited, and when that
\* pass completes too each registry has as many entries as after the first.
C5_Idempotent ==
    (pass > 1 /\ ends[pass - 1].outcome = "done") =>
        /\ \A k \in 1..Len(calls) : calls[k].pass = pass => calls[k].op # "create"
        /\ (pc = "apply" /\ calls[Len(calls)].pass = pass) => registeredCommand # Absent
        /\ pc = "done" =>
              /\ Sizes = ends[pass - 1].sizes
              /\ Len(Applies(pass)) = Len(PublishableFrom(1)) * Cardinality(InScope)
              /\ \A j \in 1..Len(Applies(pass)) : Applies(pass)[j].op = "edit"

C5_Witness ==
    /\ pass = 2
    /\ pc = "done"
    /\ \E k, n \in 1..Len(calls) :
          /\ calls[k].pass = 1 /\ calls[k].op = "create"
          /\ calls[n].pass = 2 /\ calls[n].op = "edit"
          /\ calls[n].name = calls[k].name
          /\ calls[n].target = calls[k].target

\* C6: the predicate is false for TextOnly and true for Slash, Both,
\* ContextMenuUser and ContextMenuMessage, and no remote call of any kind is
\* ever issued, nor any handling begun, for a TextOnly definition.
C6_TextOnlyNeverSynced ==
    /\ \A i \in 1..Len(files) :
          /\ publishable(files[i].module) <=> files[i].module.type \in PublishableKinds
          /\ files[i].module.type = Text => ~publishable(files[i].module)
    /\ \A k \in 1..Len(calls) : files[calls[k].idx].module.type # Text
    /\ pc \in {"resolve", "fetch", "apply"} => files[idx].module.type # Text

C6_Witness ==
    /\ pc = "done"
    /\ Len(files) = 2
    /\ files[1].module.type = Text
    /\ files[2].module.type \in PublishableKinds
    /\ \E k \in 1..Len(calls) : calls[k].idx = 2 /\ calls[k].op = "create"

\* C7: when a pass over a list of partitions completes, its create and edit
\* calls are exactly one per publishable definition and partition, definition
\* by definition and, within a definition, partition by partition in the order
\* the ids were given, each on its own partition, and no call of the pass is
\* made on the global registry.
C7_FanOut ==
    (Len(scopedGuilds) > 0 /\ pc = "done") =>
        LET n == Len(scopedGuilds)
            defs == PublishableFrom(1)
            got == Applies(pass)
        IN /\ Len(got) = Len(defs) * n
           /\ \A j \in 1..Len(got) :
                 /\ got[j].idx = defs[((j - 1) \div n) + 1]
                 /\ got[j].target = scopedGuilds[((j - 1) % n) + 1]
                 /\ got[j].status = "ok"
           /\ \A k \in 1..Len(calls) : calls[k].target # Global

C7_Witness ==
    /\ Len(scopedGuilds) = 2
    /\ pc = "done"
    /\ pass = 1
    /\ Len(PublishableFrom(1)) = 2
    /\ \E j, k \in 1..Len(Applies(1)) :
          Applies(1)[j].op = "create" /\ Applies(1)[k].op = "edit"

\* C8: a syncer built with an empty list of ids, or with none, has the global
\* scope: it resolves no partition, every call it issues is on the global
\* registry, and a completed pass has issued, definition by definition, one
\* fetch and then one create or edit for each publishable definition.
C8_EmptyListIsGlobal ==
    /\ Constructor(Absent) = <<>>
    /\ Constructor(Some(<<>>)) = <<>>
    /\ scopedGuilds = <<>> =>
          /\ \A k \in 1..Len(calls) :
                calls[k].target = Global /\ calls[k].op # "resolve"
          /\ pc = "done" =>
                LET defs == PublishableFrom(1)
                    InPass(c) == c.pass = pass
                    got == SelectSeq(calls, InPass)
                IN /\ Len(got) = 2 * Len(defs)
                   /\ \A j \in 1..Len(defs) :
                         /\ got[2 * j - 1].op = "fetch"
                         /\ got[2 * j - 1].idx = defs[j]
                         /\ got[2 * j].op \in ApplyOps
                         /\ got[2 * j].idx = defs[j]

C8_Witness ==
    /\ scopedGuilds = <<>>
    /\ pc = "done"
    /\ Len(PublishableFrom(1)) = 2
    /\ Len(calls) >= 4

\* C9 as claimed: every create and every edit sent for a definition that has
\* no description carries the description "..".
C9_PlaceholderDescription ==
    \A k \in 1..Len(calls) :
        (calls[k].op \in ApplyOps /\ files[calls[k].idx].module.description = Absent) =>
            calls[k].payload.description = Some("..")

\* The handler field of an option.
HasHandler(el) == "command" \in DOMAIN el

stem(base) ==
    LET dots == {i \in 2..Len(base) : base[i] = "."}
    IN IF dots = {} THEN base
       ELSE SubSeq(base, 1, (CHOOSE i \in dots : \A j \in dots : j <= i) - 1)

\* C11 as claimed: every call is made under the definition's explicit name or,
\* when it has none, under the base name of its file with the extension
\* removed, whatever the extension's length.
C11_ExtensionRemoved ==
    \A k \in 1..Len(calls) :
        LET file == files[calls[k].idx]
        IN calls[k].name = Coalesce(file.module.name, stem(basename(file.path)))

\* What discord.js sends for ApplicationCommandType.User and .Message.
User == 2
Message == 3

\* The ApplicationCommandType a CommandType stands for.
TypeOfKind(kind) ==
    IF kind = CtxUser THEN User
    ELSE IF kind = CtxMsg THEN Message
    ELSE ChatInput

\* C12 as claimed: the type of every create and edit payload is the
\* ApplicationCommandType of the definition's kind: chat input for Slash and
\* Both, user for ContextMenuUser, message for ContextMenuMessage.
C12_TypeFollowsKind ==
    \A k \in 1..Len(calls) :
        calls[k].op \in ApplyOps =>
            calls[k].payload.type = TypeOfKind(files[calls[k].idx].module.type)

\* C13 as claimed: an edit carries the fields a create for the same definition
\* carries, with the same values: the resolved name, the description, the type
\* and the transformed options.
C13_EditEqualsCreate ==
    \A k \in 1..Len(calls) :
        calls[k].op = "edit" =>
            calls[k].payload =
                globalCreatePayload(files[calls[k].idx].module, calls[k].name)

\* C14 as claimed: a definition whose kind is none of Slash, Both,
\* ContextMenuUser and ContextMenuMessage is not publishable, and no remote
\* call is made for it.
C14_ClosedWorld ==
    \A i \in 1..Len(files) :
        files[i].module.type \notin PublishableKinds =>
            /\ ~publishable(files[i].module)
            /\ \A k \in 1..Len(calls) : calls[k].idx # i

\* What sync() rejects with when a file cannot be loaded.
LoadErrors == {"import", "default", "undefined"}

\* C15 as claimed: a file that fails to load, or that yields a malformed
\* definition, ends the pass: sync() rejects and the pass never gets beyond
\* that file.
C15_MalformedRejectsPass ==
    /\ error \in LoadErrors => pc = "rejected"
    /\ \A i \in 1..Len(files) : files[i].module.type = NoType => idx <= i

\* C15: when the import of a file rejects, or the file has no default export,
\* sync() rejects with no call in flight, no remote call of the pass is for that
\* file or a later one, and what the creates of the pass added is still in the
\* registries; a definition without a type is skipped without any call.
C15_LoadFailureRejectsPass ==
    /\ error \in LoadErrors =>
          /\ pc = "rejected"
          /\ inflight = {}
          /\ \A k \in 1..Len(calls) :
                calls[k].pass = pass =>
                    /\ calls[k].idx < idx
                    /\ calls[k].op = "create" /\ calls[k].status = "ok" =>
                          Named(registry[calls[k].target], calls[k].name) # {}
    /\ \A k \in 1..Len(calls) : files[calls[k].idx].module.type # NoType

C15_Witness ==
    /\ error \in LoadErrors
    /\ pc = "rejected"
    /\ idx = Len(files)
    /\ \E k \in 1..Len(calls) :
          /\ calls[k].pass = pass
          /\ calls[k].op = "create"
          /\ calls[k].status = "ok"

\* C16: within a pass at most one remote call is in flight: only the latest
\* call of the log can be pending, every call before it has returned, and no
\* call is for an earlier definition than the call before it, so the calls
\* follow the order in which the loader yields the definitions: two creates
\* or edits on one target never overlap.
C16_OneCallInFlight ==
    /\ Cardinality(inflight) <= 1
    /\ \A k \in 1..Len(calls) :
          /\ calls[k].status = "pending" <=> k \in inflight
          /\ k \in inflight => k = Len(calls)
    /\ \A k \in 1..(Len(calls) - 1) :
          calls[k].pass = calls[k + 1].pass => calls[k].idx <= calls[k + 1].idx

C16_Witness ==
    \E k, n \in 1..Len(calls) :
        /\ k < n
        /\ inflight = {n}
        /\ IsApply(calls[k]) /\ IsApply(calls[n])
        /\ calls[k].pass = calls[n].pass
        /\ calls[k].target = calls[n].target
        /\ calls[k].idx < calls[n].idx
        /\ calls[k].status = "ok"

C18_SuccessOnlyWithoutError ==
    \A i \in 1..Len(logs) :
        logs[i].pass = pass /\ logs[i].message = "Commands synced successfully" =>
            /\ pc = "done"
            /\ \A j \in 1..Len(logs) : logs[j].pass = pass => logs[j].level # "error"

\* The names the publishable definitions of the pass resolve to.
PublishableNames ==
    {resolveName(files[i]) : i \in {j \in 1..Len(files) : publishable(files[j].module)}}

\* C19: no step of a pass removes or replaces an entry: every registry keeps
\* its entries, in place and under their ids, so no registry gets smaller; an
\* entry whose name no publishable definition resolves to keeps its fields,
\* and a registry outside the scope is left as it is.
C19_OnlyAddsOrOverwrites ==
    [][\A t \in Targets :
          /\ Len(registry'[t]) >= Len(registry[t])
          /\ t \notin InScope => registry'[t] = registry[t]
          /\ \A i \in 1..Len(registry[t]) :
                /\ registry'[t][i].id = registry[t][i].id
                /\ registry[t][i].name \notin PublishableNames =>
                      registry'[t][i] = registry[t][i]]_vars

C19_Witness ==
    /\ \E t \in Targets \ InScope : registry[t] # <<>>
    /\ \E k, n \in 1..Len(calls) :
          /\ calls[k].op = "create" /\ calls[k].status = "ok"
          /\ calls[n].op = "edit" /\ calls[n].status = "ok"
          /\ calls[k].target = calls[n].target
          /\ \E i \in 1..Len(registry[calls[k].target]) :
                registry[calls[k].target][i].name \notin PublishableNames

\* The calls on a registry of commands.
RegistryOps == {"fetch", "create", "edit"}

\* C20 as claimed: the pass that the constructor starts while the dependencies
\* are built issues its first fetch, and so every call on a registry, after
\* the client is ready: when such a call has been issued, the ready event has
\* been emitted.
C20_FetchAfterReady ==
    \A k \in 1..Len(calls) : calls[k].op \in RegistryOps => clientReady

\* C20: no call on a registry is issued before client.application is set:
\* when such a call has been issued, the application is there; and a pass
\* that got to its fetch without it has rejected with no such call made.
C20_FetchAfterApplicationSet ==
    /\ \A k \in 1..Len(calls) : calls[k].op \in RegistryOps => applicationSet
    /\ error = "application" =>
          /\ pc = "rejected"
          /\ \A k \in 1..Len(calls) :
                calls[k].pass = pass => calls[k].op \notin RegistryOps

\* The syncer was constructed before login, and its pass has fetched after
\* the application was set and before the ready event.
C20_Witness ==
    /\ applicationSet
    /\ ~clientReady
    /\ pass = 1
    /\ \E k \in 1..Len(calls) : calls[k].op = "fetch" /\ calls[k].status = "ok"

====
